---- MODULE Spec2Model ----
(***************************************************************************)
(* A model of gpglib's packet content decryption engine                    *)
(* (gpglib/content_parsers/crypt.py) and of its parse trace recorder       *)
(* (gpglib/utils.py, ValueTracker).                                        *)
(*                                                                         *)
(* The code is Python 2 (print statements, integer "/").  Bytes are the    *)
(* integers 0..255, a byte string is a sequence of them.  A bitstring      *)
(* stream is a record [data, pos] with pos counted in bits; every read of  *)
(* the code is a whole number of bytes and every stream starts on a byte   *)
(* boundary, so pos stays a multiple of 8.                                 *)
(*                                                                         *)
(* Four specifications share the variables:                                *)
(*   SpecRegistry  Mapping.__getitem__ on the tables of Algorithms,        *)
(*                 Ciphers and Compression                                 *)
(*   SpecMpi       Mpi.parse and the three layout functions on a region    *)
(*   SpecPKCS      PKCS.consume                                            *)
(*   SpecTracker   ValueTracker.start_item / end_item                      *)
(***************************************************************************)
EXTENDS Integers, Sequences, FiniteSets, TLC

VARIABLES
    region,         \* the bitstring region being parsed: [data, pos]
    call,           \* the last Mpi call made on region and its outcome
    lookup,         \* the last Mapping.__getitem__ and its outcome
    pc,             \* PKCS.consume: the position in the method
    key_algorithm,  \* PKCS.consume: the key_algorithm argument
    mpis,           \* PKCS.consume: the local mpis (line 83)
    padded,         \* PKCS.consume: the local padded, a stream (line 84)
    decrypted,      \* PKCS.consume: the local decrypted (lines 88, 103)
    fallback,       \* PKCS.consume: what Random.new().read(19) gave
    branch,         \* PKCS.consume: whether line 103 ran
    raised,         \* PKCS.consume: the exception that left the method
    returned,       \* PKCS.consume: the stream returned by line 109
    decryptCalls,   \* PKCS.consume: how often key.decrypt was invoked
    heap,           \* ValueTracker: the dicts it built, by identity
    current,        \* ValueTracker: self._current
    trackerErr      \* ValueTracker: the exception the last call raised

vars == <<region, call, lookup, pc, key_algorithm, mpis, padded, decrypted,
          fallback, branch, raised, returned, decryptCalls, heap, current,
          trackerErr>>

mpiVars == <<region, call>>
pkcsVars == <<pc, key_algorithm, mpis, padded, decrypted, fallback, branch,
              raised, returned, decryptCalls>>
trackerVars == <<heap, current, trackerErr>>

(***************************************************************************)
(* Bounds of the model.                                                    *)
(***************************************************************************)
MaxCode == 40          \* registry keys tried are the integers 0..MaxCode
MaxChunks == 4         \* a region is at most this many chunks long
MaxStart == 2          \* the cursor starts at most this many bytes in
MaxShort == 3          \* every decrypted buffer up to this length is tried
MaxRun == 9            \* the longest run of padding bytes tried
MaxPayload == 19       \* the longest payload behind the separator tried
MaxItems == 4          \* a ValueTracker records at most this many items

(***************************************************************************)
(* Constants of the program.                                               *)
(***************************************************************************)
RandomLen == 19        \* Random.new().read(19)
MinPS == 8             \* pos_after - pos_before >= 8

(***************************************************************************)
(* Python values: an int, or an object known by its identity (a module of  *)
(* Crypto, a function).                                                    *)
(***************************************************************************)
PyInt(n) == [t |-> "int", n |-> n, name |-> ""]
PyObj(s) == [t |-> "obj", n |-> 0, name |-> s]

RSA == PyObj("RSA")
DSA == PyObj("DSA")
ElGamal == PyObj("ElGamal")
SHA == PyObj("SHA")
SHA256 == PyObj("SHA256")
CAST == PyObj("CAST")
decompress_zlib == PyObj("decompress_zlib")
None == PyObj("None")

Fill(n, v) == [i \in 1..n |-> v]

(***************************************************************************)
(* MAPPINGS                                                                *)
(***************************************************************************)
\* A dict literal is a set of <<key, value>> pairs with distinct keys.
DictKeys(map) == {kv[1] : kv \in map}
DictGet(map, key) == (CHOOSE kv \in map : kv[1] = key)[2]

Algorithms_encryption ==
    [type |-> "Symmetric encryption algorithm",
     map |-> {<<PyInt(3), CAST>>}]

Algorithms_hashes ==
    [type |-> "Hash Algorithm",
     map |-> {<<PyInt(2), SHA>>, <<PyInt(8), SHA256>>}]

Algorithms_keys ==
    [type |-> "Key algorithm",
     map |-> {<<PyInt(1), RSA>>, <<PyInt(2), RSA>>, <<PyInt(3), RSA>>,
              <<PyInt(16), ElGamal>>, <<PyInt(17), DSA>>}]

Ciphers_key_sizes ==
    [type |-> "Cipher key size",
     map |-> {<<CAST, PyInt(16)>>}]

Compression_decompression ==
    [type |-> "Decompressor",
     map |-> {<<PyInt(1), decompress_zlib>>}]

Tables ==
    [encryption |-> Algorithms_encryption,
     hashes |-> Algorithms_hashes,
     keys |-> Algorithms_keys,
     key_sizes |-> Ciphers_key_sizes,
     decompression |-> Compression_decompression]

TableNames == DOMAIN Tables

\* Mapping.__getitem__ with the guard left out: an unknown key is answered
\* with a default instead of an error.
Mapping_getitem_default(mapping, key) ==
    IF key \notin DictKeys(mapping.map)
    THEN [err |-> "none", value |-> None]
    ELSE [err |-> "none", value |-> DictGet(mapping.map, key)]

\* Mapping.__getitem__: "Complain if key isn't known".
Mapping_getitem(mapping, key) ==
    IF key \notin DictKeys(mapping.map)
    THEN [err |-> "NotImplementedError", value |-> None]
    ELSE [err |-> "none", value |-> DictGet(mapping.map, key)]

(***************************************************************************)
(* bitstring.ConstBitStream, as far as the code uses it.                   *)
(***************************************************************************)
Stream(bytes) == [data |-> bytes, pos |-> 0]
BitLen(s) == 8 * Len(s.data)
BytePos(s) == s.pos \div 8
\* the bytes of s from bit position p, n bits long
Slice(s, p, n) == SubSeq(s.data, (p \div 8) + 1, (p + n) \div 8)

\* s.read(n), n an int: a ReadError when fewer than n bits are left, and
\* the cursor stays; the next n bits otherwise.
ReadBits(s, n) ==
    IF n > BitLen(s) - s.pos
    THEN [err |-> "ReadError", val |-> <<>>, s |-> s]
    ELSE [err |-> "none", val |-> Slice(s, s.pos, n),
          s |-> [s EXCEPT !.pos = s.pos + n]]

\* s.read('uint:16'): the next 16 bits as a big-endian unsigned integer.
ReadUint16(s) ==
    LET r == ReadBits(s, 16)
    IN  IF r.err # "none"
        THEN [err |-> r.err, val |-> 0, s |-> s]
        ELSE [err |-> "none", val |-> r.val[1] * 256 + r.val[2], s |-> r.s]

\* s.read('bytes:n')
ReadBytes(s, n) == ReadBits(s, 8 * n)

\* s.read('bytes'): everything that is left, possibly nothing.
ReadRest(s) == ReadBits(s, BitLen(s) - s.pos)

\* the byte positions at or after byte index `from` (0-based) holding 0x00
ZeroPositions(s, from) ==
    {k \in from..(Len(s.data) - 1) : s.data[k + 1] = 0}

Min(S) == CHOOSE x \in S : \A y \in S : x <= y

\* s.find('0x00', bytealigned=True): the search starts at bit 0, whatever
\* the cursor; the cursor moves to the match, and stays when there is none.
FindZero(s) ==
    IF ZeroPositions(s, 0) = {}
    THEN s
    ELSE [s EXCEPT !.pos = 8 * Min(ZeroPositions(s, 0))]

(***************************************************************************)
(* MPI VALUES                                                              *)
(***************************************************************************)
\* Mpi.parse rounding the bit length down to bytes instead of up.
Mpi_parse_floor(s) ==
    LET r1 == ReadUint16(s)
    IN  IF r1.err # "none"
        THEN [err |-> r1.err, val |-> <<>>, s |-> r1.s]
        ELSE LET mpi_length == r1.val \div 8
                 r2 == ReadBits(r1.s, mpi_length * 8)
             IN  [err |-> r2.err, val |-> r2.val, s |-> r2.s]

\* Mpi.parse returning what is left when the declared bytes are not there.
Mpi_parse_lenient(s) ==
    LET r1 == ReadUint16(s)
    IN  IF r1.err # "none"
        THEN [err |-> "none", val |-> <<>>, s |-> r1.s]
        ELSE LET mpi_length == (r1.val + 7) \div 8
                 r2 == ReadBits(r1.s, mpi_length * 8)
             IN  IF r2.err # "none"
                 THEN LET r3 == ReadRest(r1.s)
                      IN  [err |-> "none", val |-> r3.val, s |-> r3.s]
                 ELSE [err |-> r2.err, val |-> r2.val, s |-> r2.s]

\* Mpi.parse: "Retrieve one MPI value from the region".  When the second
\* read fails the first one has already moved the cursor.
Mpi_parse(s) ==
    LET r1 == ReadUint16(s)
    IN  IF r1.err # "none"
        THEN [err |-> r1.err, val |-> <<>>, s |-> r1.s]
        ELSE LET mpi_length == (r1.val + 7) \div 8
                 r2 == ReadBits(r1.s, mpi_length * 8)
             IN  [err |-> r2.err, val |-> r2.val, s |-> r2.s]

\* n calls of cls.parse(region) one after the other, as the layout
\* functions make them: the first exception ends the function, and no
\* tuple is built.
RECURSIVE ParseEach(_, _)
ParseEach(s, n) ==
    IF n = 0
    THEN [err |-> "none", vals |-> <<>>, s |-> s]
    ELSE LET first == Mpi_parse(s)
         IN  IF first.err # "none"
             THEN [err |-> first.err, vals |-> <<>>, s |-> first.s]
             ELSE LET rest == ParseEach(first.s, n - 1)
                  IN  IF rest.err # "none"
                      THEN [err |-> rest.err, vals |-> <<>>, s |-> rest.s]
                      ELSE [err |-> "none",
                            vals |-> <<first.val>> \o rest.vals,
                            s |-> rest.s]

\* "n and e"
rsa_mpis_public(s) == ParseEach(s, 2)
\* "d, p, q and r"
rsa_mpis_private(s) == ParseEach(s, 4)
\* "p, g and y"
elgamal_mpis_public(s) == ParseEach(s, 3)
\* "x"
elgamal_mpis_private(s) == ParseEach(s, 1)
\* dsa_mpis_public leaving out one of its four reads
dsa_mpis_public_short(s) == ParseEach(s, 3)
\* "p, q, g and y"
dsa_mpis_public(s) == ParseEach(s, 4)
\* "x"
dsa_mpis_private(s) == ParseEach(s, 1)

\* "..%d" % algorithm: Python formats a number, and raises TypeError for
\* anything else (a module, None).
FormatD(x) == IF x.t = "int" THEN "none" ELSE "TypeError"

\* raise errors.PGPException("Unknown mpi algorithm for ... %d" % algorithm):
\* the message is built first, so a failure to build it is what is raised.
RaiseUnknown(s, algorithm) ==
    [err |-> IF FormatD(algorithm) = "none"
             THEN "PGPException" ELSE FormatD(algorithm),
     vals |-> <<>>, s |-> s]

Mpi_consume_encryption(s, algorithm) ==
    IF algorithm = RSA THEN ParseEach(s, 1)
    ELSE IF algorithm = ElGamal THEN ParseEach(s, 2)
    ELSE RaiseUnknown(s, algorithm)

Mpi_consume_public(s, algorithm) ==
    IF algorithm = RSA THEN rsa_mpis_public(s)
    ELSE IF algorithm = ElGamal THEN elgamal_mpis_public(s)
    ELSE IF algorithm = DSA THEN dsa_mpis_public(s)
    ELSE RaiseUnknown(s, algorithm)

Mpi_consume_private(s, algorithm) ==
    IF algorithm = RSA THEN rsa_mpis_private(s)
    ELSE IF algorithm = ElGamal THEN elgamal_mpis_private(s)
    ELSE IF algorithm = DSA THEN dsa_mpis_private(s)
    ELSE RaiseUnknown(s, algorithm)

(***************************************************************************)
(* Idle values: what the variables of the other components hold while one  *)
(* component runs.                                                         *)
(***************************************************************************)
NoCall == [op |-> "none", algorithm |-> None, pre |-> Stream(<<>>),
           err |-> "none", vals |-> <<>>]
NoLookup == [table |-> "none", key |-> None, err |-> "none", value |-> None]
RootOnly == <<[items |-> <<>>, info |-> "", parent |-> 0]>>

IdleMpi == region = Stream(<<>>) /\ call = NoCall
IdleRegistry == lookup = NoLookup
IdlePKCS ==
    /\ pc = "idle"
    /\ key_algorithm = None
    /\ mpis = <<>>
    /\ padded = Stream(<<>>)
    /\ decrypted = <<>>
    /\ fallback = <<>>
    /\ branch = "none"
    /\ raised = "none"
    /\ returned = Stream(<<>>)
    /\ decryptCalls = 0
IdleTracker == heap = RootOnly /\ current = 0 /\ trackerErr = "none"

(***************************************************************************)
(* SpecRegistry: item access on the five tables.                           *)
(***************************************************************************)
Objects == {RSA, DSA, ElGamal, SHA, SHA256, CAST, decompress_zlib, None}
Keys == {PyInt(n) : n \in 0..MaxCode} \cup Objects

InitRegistry == IdleRegistry /\ IdleMpi /\ IdlePKCS /\ IdleTracker

\* table[key] for one of the tables and any key
Getitem ==
    \E name \in TableNames, key \in Keys :
        LET r == Mapping_getitem(Tables[name], key)
        IN  /\ lookup' = [table |-> name, key |-> key,
                          err |-> r.err, value |-> r.value]
            /\ UNCHANGED <<mpiVars, pkcsVars, trackerVars>>

NextRegistry == Getitem
SpecRegistry == InitRegistry /\ [][NextRegistry]_vars

(***************************************************************************)
(* SpecMpi: one call of Mpi.parse or of a layout function on a region      *)
(* whose cursor is at one of its first bytes.                              *)
(***************************************************************************)
EncodeMpi(b, body) == <<b \div 256, b % 256>> \o body

\* The pieces regions are made of: whole MPIs of 0, 1, 9 and 257 bits, and
\* a prefix declaring 8 bits with nothing behind it.
Chunks ==
    { EncodeMpi(0, <<>>),
      EncodeMpi(1, <<1>>),
      EncodeMpi(9, <<1, 255>>),
      EncodeMpi(257, Fill(33, 170)),
      EncodeMpi(8, <<>>) }

RECURSIVE Concats(_)
Concats(k) ==
    IF k = 0 THEN {<<>>}
    ELSE LET shorter == Concats(k - 1)
         IN  shorter \cup {c \o d : c \in Chunks, d \in shorter}

RegionData == Concats(MaxChunks)

\* what a caller may pass as the algorithm: the modules the registry
\* resolves to, another module, None, and a bare numeric code
AlgInputs == {RSA, ElGamal, DSA, CAST, None, PyInt(17)}

InitMpi ==
    /\ \E d \in RegionData : \E p \in 0..MaxStart :
           /\ p <= Len(d)
           /\ region = [data |-> d, pos |-> 8 * p]
    /\ call = NoCall
    /\ IdleRegistry /\ IdlePKCS /\ IdleTracker

Record(op, algorithm, r) ==
    /\ call' = [op |-> op, algorithm |-> algorithm, pre |-> region,
                err |-> r.err, vals |-> r.vals]
    /\ region' = r.s
    /\ UNCHANGED <<lookup, pkcsVars, trackerVars>>

CallParse ==
    /\ call.op = "none"
    /\ LET r == Mpi_parse(region)
       IN  Record("parse", None,
                  [err |-> r.err, s |-> r.s,
                   vals |-> IF r.err = "none" THEN <<r.val>> ELSE <<>>])

CallConsumePublic ==
    /\ call.op = "none"
    /\ \E a \in AlgInputs : Record("public", a, Mpi_consume_public(region, a))

CallConsumePrivate ==
    /\ call.op = "none"
    /\ \E a \in AlgInputs : Record("private", a, Mpi_consume_private(region, a))

CallConsumeEncryption ==
    /\ call.op = "none"
    /\ \E a \in AlgInputs :
           Record("encryption", a, Mpi_consume_encryption(region, a))

NextMpi ==
    \/ CallParse
    \/ CallConsumePublic
    \/ CallConsumePrivate
    \/ CallConsumeEncryption
SpecMpi == InitMpi /\ [][NextMpi]_vars

(***************************************************************************)
(* The MPI wire format, stated on the bytes of a region without reading    *)
(* from it: what the claims about Mpi compare the code's results with.     *)
(***************************************************************************)
CeilBytes(b) == IF b % 8 = 0 THEN b \div 8 ELSE (b \div 8) + 1

\* the bit length declared at byte offset p (0-based) of d
DeclaredBits(d, p) == d[p + 1] * 256 + d[p + 2]

\* whether d holds a whole length prefix at byte offset p
HasPrefix(d, p) == p + 2 <= Len(d)

\* whether d holds a whole MPI at byte offset p
HasMpi(d, p) ==
    HasPrefix(d, p) /\ p + 2 + CeilBytes(DeclaredBits(d, p)) <= Len(d)

\* the byte offset after n whole MPIs from byte offset p, -1 when one of
\* them is cut short
RECURSIVE AfterMpis(_, _, _)
AfterMpis(d, p, n) ==
    IF n = 0 THEN p
    ELSE IF ~HasMpi(d, p) THEN -1
    ELSE AfterMpis(d, p + 2 + CeilBytes(DeclaredBits(d, p)), n - 1)

\* the bytes of the i-th MPI (from 1) from byte offset p
NthMpi(d, p, i) ==
    LET q == AfterMpis(d, p, i - 1)
    IN  SubSeq(d, q + 3, q + 2 + CeilBytes(DeclaredBits(d, q)))

\* the number of MPIs of each layout, as the data model gives them
LayoutArity ==
    [public |-> {<<RSA, 2>>, <<ElGamal, 3>>, <<DSA, 4>>},
     private |-> {<<RSA, 4>>, <<ElGamal, 1>>, <<DSA, 1>>},
     encryption |-> {<<RSA, 1>>, <<ElGamal, 2>>}]
Layouts == DOMAIN LayoutArity
HasLayout(op, a) == a \in DictKeys(LayoutArity[op])
Arity(op, a) == DictGet(LayoutArity[op], a)

PreData == call.pre.data
PreByte == call.pre.pos \div 8

\* C5: Mpi.parse on a region with enough data reads the 16-bit big-endian
\* bit length b, returns exactly the next ceil(b/8) bytes, advances the
\* cursor by 16 + 8*ceil(b/8) bits (b = 0 included: an empty value, 16
\* bits), and the returned bytes behind the same prefix are the bytes read.
C5_ParseReadsDeclaredBytes ==
    (call.op = "parse" /\ HasMpi(PreData, PreByte)) =>
        LET b == DeclaredBits(PreData, PreByte)
            n == CeilBytes(b)
        IN  /\ call.err = "none"
            /\ Len(call.vals) = 1
            /\ Len(call.vals[1]) = n
            /\ call.vals[1] = SubSeq(PreData, PreByte + 3, PreByte + 2 + n)
            /\ region.data = PreData
            /\ region.pos = call.pre.pos + 16 + 8 * n
            /\ EncodeMpi(b, call.vals[1])
                   = SubSeq(PreData, PreByte + 1, PreByte + 2 + n)

\* a parse of an MPI of 257 bits (33 bytes, the high length byte used)
C5_Witness ==
    /\ call.op = "parse"
    /\ HasMpi(PreData, PreByte)
    /\ DeclaredBits(PreData, PreByte) = 257
    /\ call.err = "none"

\* a parse of an MPI of 0 bits
C5_WitnessZero ==
    /\ call.op = "parse"
    /\ HasMpi(PreData, PreByte)
    /\ DeclaredBits(PreData, PreByte) = 0
    /\ call.err = "none"
    /\ call.vals = << <<>> >>

\* C6: Mpi.parse fails with the read error, and returns nothing, whenever
\* the length prefix or the declared bytes are not all there; a value it
\* returns is never shorter than declared; and a layout function fails,
\* returning no tuple, when any of its MPIs is cut short.
C6_TruncationFails ==
    /\ (call.op = "parse" /\ ~HasMpi(PreData, PreByte)) =>
           (call.err = "ReadError" /\ call.vals = <<>>)
    /\ (call.op = "parse" /\ call.err = "none") =>
           Len(call.vals[1]) >= CeilBytes(DeclaredBits(PreData, PreByte))
    /\ (/\ call.op \in Layouts
        /\ HasLayout(call.op, call.algorithm)
        /\ AfterMpis(PreData, PreByte, Arity(call.op, call.algorithm)) = -1)
           => (call.err = "ReadError" /\ call.vals = <<>>)

\* consume_public for DSA on a region holding three whole MPIs and a
\* fourth one cut short
C6_Witness ==
    /\ call.op = "public"
    /\ call.algorithm = DSA
    /\ AfterMpis(PreData, PreByte, 3) # -1
    /\ AfterMpis(PreData, PreByte, 4) = -1
    /\ call.err = "ReadError"

\* a parse of a region holding the prefix alone, which declares 8 bits
C6_WitnessPrefixOnly ==
    /\ call.op = "parse"
    /\ Len(PreData) = PreByte + 2
    /\ DeclaredBits(PreData, PreByte) = 8
    /\ call.err = "ReadError"

\* C8: each layout returns a tuple of its fixed length whose i-th element
\* is the i-th consecutive MPI of the region and leaves the cursor just
\* after the last one; and every algorithm the key registry resolves has
\* a public and a private layout.
C8_LayoutsReadConsecutiveMpis ==
    /\ (/\ call.op \in Layouts
        /\ HasLayout(call.op, call.algorithm)
        /\ AfterMpis(PreData, PreByte, Arity(call.op, call.algorithm)) # -1)
           => LET n == Arity(call.op, call.algorithm)
              IN  /\ call.err = "none"
                  /\ Len(call.vals) = n
                  /\ \A i \in 1..n : call.vals[i] = NthMpi(PreData, PreByte, i)
                  /\ region.data = PreData
                  /\ region.pos = 8 * AfterMpis(PreData, PreByte, n)
    /\ \A kv \in Algorithms_keys.map :
           /\ HasLayout("public", kv[2])
           /\ HasLayout("private", kv[2])
           /\ Mpi_consume_public(region, kv[2]).err \in {"none", "ReadError"}
           /\ Mpi_consume_private(region, kv[2]).err \in {"none", "ReadError"}

\* consume_public for DSA on a region holding four whole MPIs
C8_Witness ==
    /\ call.op = "public"
    /\ call.algorithm = DSA
    /\ AfterMpis(PreData, PreByte, 4) # -1
    /\ Len(call.vals) = 4
    /\ call.vals[1] # call.vals[2]

\* C9: a layout function asked for an algorithm that has no layout in its
\* context fails with errors.PGPException and with no other kind of error,
\* having read nothing from the region.
C9_UnknownAlgorithmIsPGPException ==
    (call.op \in Layouts /\ ~HasLayout(call.op, call.algorithm)) =>
        /\ call.err = "PGPException"
        /\ call.vals = <<>>
        /\ region = call.pre

(***************************************************************************)
(* Claims about the registry.                                              *)
(***************************************************************************)
\* the codes the key registry is to resolve, and what to
KeyCodes == {<<1, RSA>>, <<2, RSA>>, <<3, RSA>>, <<16, ElGamal>>, <<17, DSA>>}

\* C7: a lookup is a hard failure for every unregistered key and never a
\* silent default: Algorithms.keys[code] succeeds exactly for the codes
\* 1, 2, 3 (RSA), 16 (ElGamal) and 17 (DSA); the other tables fail for
\* every key not in them; a lookup that fails gives NotImplementedError
\* and no value; and every cipher Algorithms.encryption resolves to has a
\* key size in Ciphers.key_sizes.
C7_UnregisteredLookupFails ==
    lookup.table # "none" =>
        /\ lookup.err \in {"none", "NotImplementedError"}
        /\ lookup.err = "none"
               <=> lookup.key \in DictKeys(Tables[lookup.table].map)
        /\ lookup.err # "none" => lookup.value = None
        /\ lookup.err = "none" => lookup.value # None
        /\ lookup.table = "keys" =>
               /\ lookup.err = "none"
                      <=> \E kc \in KeyCodes : lookup.key = PyInt(kc[1])
               /\ \A kc \in KeyCodes :
                      lookup.key = PyInt(kc[1]) => lookup.value = kc[2]
        /\ (lookup.table = "encryption" /\ lookup.err = "none") =>
               Mapping_getitem(Ciphers_key_sizes, lookup.value).err = "none"

\* Algorithms.keys[4], a code between the registered ones, has failed
C7_Witness ==
    /\ lookup.table = "keys"
    /\ lookup.key = PyInt(4)
    /\ lookup.err = "NotImplementedError"

\* Algorithms.encryption[3] has resolved to CAST
C7_WitnessCipher ==
    /\ lookup.table = "encryption"
    /\ lookup.key = PyInt(3)
    /\ lookup.value = CAST

(***************************************************************************)
(* PKCS                                                                    *)
(***************************************************************************)
\* Lines 90-106 of PKCS.consume with the final read left out: the rest of
\* padded is not discarded.
Unpad_no_drain(p, d) ==
    LET first == ReadBytes(p, 1)
    IN  IF first.err # "none"
        THEN [err |-> first.err, padded |-> first.s, decrypted |-> d,
              branch |-> "none"]
        ELSE IF first.val = <<2>>
        THEN LET pos_before == BytePos(first.s)
                 found == FindZero(first.s)
                 pos_after == BytePos(found)
             IN  IF pos_after - pos_before >= MinPS
                 THEN LET sep == ReadBytes(found, 1)
                          rest == ReadRest(sep.s)
                      IN  [err |-> "none", padded |-> rest.s,
                           decrypted |-> rest.val, branch |-> "real"]
                 ELSE [err |-> "none", padded |-> found, decrypted |-> d,
                       branch |-> "fallback"]
        ELSE [err |-> "none", padded |-> first.s, decrypted |-> d,
              branch |-> "fallback"]

\* Lines 90-106 of PKCS.consume: p is padded, d is decrypted as line 88
\* set it.  The result holds padded and decrypted as line 106 leaves
\* them, whether line 103 ran (branch), and the exception raised, if any.
Unpad(p, d) ==
    LET first == ReadBytes(p, 1)
    IN  IF first.err # "none"
        THEN [err |-> first.err, padded |-> first.s, decrypted |-> d,
              branch |-> "none"]
        ELSE LET checked ==
                     IF first.val = <<2>>
                     THEN LET pos_before == BytePos(first.s)
                              found == FindZero(first.s)
                              pos_after == BytePos(found)
                          IN  IF pos_after - pos_before >= MinPS
                              THEN LET sep == ReadBytes(found, 1)
                                       rest == ReadRest(sep.s)
                                   IN  [padded |-> rest.s,
                                        decrypted |-> rest.val,
                                        branch |-> "real"]
                              ELSE [padded |-> found, decrypted |-> d,
                                    branch |-> "fallback"]
                     ELSE [padded |-> first.s, decrypted |-> d,
                           branch |-> "fallback"]
                 drained == ReadRest(checked.padded)
             IN  [err |-> drained.err, padded |-> drained.s,
                  decrypted |-> checked.decrypted, branch |-> checked.branch]

(***************************************************************************)
(* SpecPKCS: one call of PKCS.consume(region, key_algorithm, key).  The    *)
(* key and the random source are outside the program: key is whatever     *)
(* object the caller passes, and its decrypt gives any byte string; the    *)
(* empty one is among them (PyCrypto's own keys give at least one byte).   *)
(* Random.new().read(19) gives any 19 bytes.  An exception of key.decrypt  *)
(* itself is not modelled.                                                 *)
(***************************************************************************)
\* every byte string over {0, 1, 2} of length at most n
RECURSIVE ShortBuffers(_)
ShortBuffers(n) ==
    IF n = 0 THEN {<<>>}
    ELSE LET shorter == ShortBuffers(n - 1)
         IN  shorter \cup {<<b>> \o t : b \in {0, 1, 2}, t \in shorter}

\* what may follow the padding run: nothing, or the separator and a payload
Tails ==
    {<<>>} \cup {<<0>> \o Fill(n, v) : n \in 0..MaxPayload, v \in {0, 7}}

\* a first byte, a run of non-zero bytes, and a tail
ShapedBuffers ==
    {<<first>> \o Fill(run, ps) \o tail :
        first \in {1, 2}, run \in 0..MaxRun, ps \in {3, 255}, tail \in Tails}

DecryptOutputs == ShortBuffers(MaxShort) \cup ShapedBuffers

RandomOutputs == {Fill(RandomLen, 0), Fill(RandomLen, 171)}

PKCSRegions ==
    { <<>>,
      EncodeMpi(8, <<>>),
      EncodeMpi(9, <<1, 255>>),
      EncodeMpi(9, <<1, 255>>) \o EncodeMpi(1, <<1>>) }

InitPKCS ==
    /\ \E d \in PKCSRegions : region = Stream(d)
    /\ key_algorithm \in {RSA, ElGamal, DSA}
    /\ pc = "start"
    /\ mpis = <<>>
    /\ padded = Stream(<<>>)
    /\ decrypted = <<>>
    /\ fallback = <<>>
    /\ branch = "none"
    /\ raised = "none"
    /\ returned = Stream(<<>>)
    /\ decryptCalls = 0
    /\ call = NoCall
    /\ IdleRegistry /\ IdleTracker

\* line 83: the mpi values of the region, by key_algorithm
PKCS_ReadMpis ==
    /\ pc = "start"
    /\ LET r == Mpi_consume_encryption(region, key_algorithm)
       IN  /\ region' = r.s
           /\ IF r.err # "none"
              THEN /\ raised' = r.err
                   /\ pc' = "raised"
                   /\ mpis' = mpis
              ELSE /\ mpis' = r.vals
                   /\ pc' = "decrypt"
                   /\ raised' = raised
    /\ UNCHANGED <<call, lookup, key_algorithm, padded, decrypted, fallback,
                   branch, returned, decryptCalls, trackerVars>>

\* line 84: padded is a stream over what key.decrypt(mpis) gives
PKCS_Decrypt ==
    /\ pc = "decrypt"
    /\ \E buf \in DecryptOutputs : padded' = Stream(buf)
    /\ decryptCalls' = decryptCalls + 1
    /\ pc' = "random"
    /\ UNCHANGED <<mpiVars, lookup, key_algorithm, mpis, decrypted, fallback,
                   branch, raised, returned, trackerVars>>

\* line 88: decrypted defaults to random values
PKCS_Random ==
    /\ pc = "random"
    /\ \E r \in RandomOutputs : decrypted' = r /\ fallback' = r
    /\ pc' = "unpad"
    /\ UNCHANGED <<mpiVars, lookup, key_algorithm, mpis, padded, branch,
                   raised, returned, decryptCalls, trackerVars>>

\* lines 90-106: the padding is inspected and padded read to its end
PKCS_Unpad ==
    /\ pc = "unpad"
    /\ LET r == Unpad(padded, decrypted)
       IN  /\ padded' = r.padded
           /\ decrypted' = r.decrypted
           /\ branch' = r.branch
           /\ raised' = r.err
           /\ pc' = IF r.err # "none" THEN "raised" ELSE "return"
    /\ UNCHANGED <<mpiVars, lookup, key_algorithm, mpis, fallback, returned,
                   decryptCalls, trackerVars>>

\* line 109: a fresh stream over decrypted is returned
PKCS_Return ==
    /\ pc = "return"
    /\ returned' = Stream(decrypted)
    /\ pc' = "done"
    /\ UNCHANGED <<mpiVars, lookup, key_algorithm, mpis, padded, decrypted,
                   fallback, branch, raised, decryptCalls, trackerVars>>

NextPKCS ==
    \/ PKCS_ReadMpis
    \/ PKCS_Decrypt
    \/ PKCS_Random
    \/ PKCS_Unpad
    \/ PKCS_Return
SpecPKCS == InitPKCS /\ [][NextPKCS]_vars

(***************************************************************************)
(* The padding format, stated on the bytes of the decrypted buffer.        *)
(***************************************************************************)
\* the 1-based indices of the 0x00 bytes of d
Zeros(d) == {k \in 1..Len(d) : d[k] = 0}

\* byte 0 is 0x02 and the first 0x00 byte has at least eight bytes between
\* byte 0 and itself
WellFormed(d) ==
    /\ Len(d) >= 1
    /\ d[1] = 2
    /\ Zeros(d) # {}
    /\ Min(Zeros(d)) - 2 >= 8

\* the bytes after the first 0x00 byte of d
AfterFirstZero(d) == SubSeq(d, Min(Zeros(d)) + 1, Len(d))

\* key.decrypt has been invoked and the padding step has ended
PaddingStepOver == decryptCalls > 0 /\ pc \in {"return", "done", "raised"}

\* C1: whatever bytes the asymmetric decryption returned, the empty string
\* included, the padding step ends by returning and never by raising.
C1_PaddingStepNeverRaises ==
    decryptCalls > 0 => (pc # "raised" /\ raised = "none")

\* the same for the buffers that hold at least one byte
C1_NonEmptyBufferNeverRaises ==
    (decryptCalls > 0 /\ Len(padded.data) >= 1) =>
        (pc # "raised" /\ raised = "none")

\* C2: the payload is the real one, the bytes after the first 0x00 byte,
\* exactly when byte 0 is 0x02 and the first 0x00 byte is at index 9 or
\* later; in every other case the method returns the 19 random bytes
\* drawn before the buffer was looked at.
C2_RealPayloadIffWellFormed ==
    PaddingStepOver =>
        /\ pc # "raised"
        /\ branch = "real" <=> WellFormed(padded.data)
        /\ WellFormed(padded.data) =>
               decrypted = AfterFirstZero(padded.data)
        /\ ~WellFormed(padded.data) =>
               (decrypted = fallback /\ Len(decrypted) = RandomLen)
        /\ pc = "done" => returned = Stream(decrypted)

\* the same for the calls that return
C2_RealPayloadIffWellFormedOnReturn ==
    pc \in {"return", "done"} =>
        /\ branch = "real" <=> WellFormed(padded.data)
        /\ WellFormed(padded.data) =>
               decrypted = AfterFirstZero(padded.data)
        /\ ~WellFormed(padded.data) =>
               (decrypted = fallback /\ Len(decrypted) = RandomLen)
        /\ pc = "done" => returned = Stream(decrypted)

\* C3: when PKCS.consume returns, the cursor of padded is at the end of
\* the buffer, whichever path was taken.
C3_PaddedReadToTheEnd ==
    pc \in {"return", "done"} => padded.pos = BitLen(padded)

\* a return on the path of a padding run shorter than eight, with bytes
\* behind the separator that only the final read consumes
C3_Witness ==
    /\ pc = "done"
    /\ branch = "fallback"
    /\ padded.data[1] = 2
    /\ Zeros(padded.data) # {}
    /\ Min(Zeros(padded.data)) < 10
    /\ Len(padded.data) > Min(Zeros(padded.data))

\* C4: the payload returned is never empty and always has the length of a
\* session key record (19 bytes), so that for two buffers of one size, one
\* well formed and one not, the lengths returned are the same.  The path
\* of malformed padding returns RandomLen bytes for a buffer of any size,
\* so the two lengths agree exactly when every return has that length.
C4_PayloadLengthIsFixed ==
    pc = "done" =>
        (Len(returned.data) > 0 /\ Len(returned.data) = RandomLen)

\* C9, for PKCS.consume: with DSA the method fails with
\* errors.PGPException before key.decrypt is invoked and before padded
\* exists, having read nothing from the region.
C9_PKCSWithDSAIsPGPException ==
    (key_algorithm = DSA /\ pc # "start") =>
        /\ pc = "raised"
        /\ raised = "PGPException"
        /\ decryptCalls = 0
        /\ region.pos = 0

\* what does hold of PKCS.consume with DSA
C9_PKCSWithDSAFailsBeforeDecrypt ==
    (key_algorithm = DSA /\ pc # "start") =>
        /\ pc = "raised"
        /\ decryptCalls = 0
        /\ fallback = <<>>
        /\ region.pos = 0

(***************************************************************************)
(* ValueTracker                                                            *)
(*                                                                         *)
(* heap holds the dicts the tracker built, a dict's identity being its     *)
(* index.  heap[1] is self._items, {'items': []}: it has no 'info' and no  *)
(* 'parent' key, which parent = 0 stands for.  current is the index of     *)
(* the dict self._current refers to, 0 for None.                           *)
(***************************************************************************)
Root == 1
HasParentKey(d) == d.parent # 0

\* "if self._current:": None is false, and a dict is true unless it is
\* empty; every dict of the tracker holds the key 'items'.
Truthy(c) == c # 0

Infos == {"a", "b"}

InitTracker ==
    /\ heap = RootOnly
    /\ current = 0
    /\ trackerErr = "none"
    /\ IdleMpi /\ IdleRegistry /\ IdlePKCS

\* start_item(item)
start_item(item) ==
    LET parent == IF Truthy(current) THEN current ELSE Root
        next_item == Len(heap) + 1
    IN  /\ heap' = Append([heap EXCEPT ![parent].items = Append(@, next_item)],
                          [items |-> <<>>, info |-> item, parent |-> parent])
        /\ current' = next_item
        /\ trackerErr' = "none"

\* end_item(): self._current['parent'] raises KeyError for a dict without
\* that key, and then nothing is assigned.
end_item ==
    IF Truthy(current)
    THEN IF HasParentKey(heap[current])
         THEN /\ current' = heap[current].parent
              /\ trackerErr' = "none"
              /\ heap' = heap
         ELSE /\ trackerErr' = "KeyError"
              /\ UNCHANGED <<heap, current>>
    ELSE /\ trackerErr' = "none"
         /\ UNCHANGED <<heap, current>>

StartItem ==
    /\ Len(heap) <= MaxItems
    /\ \E item \in Infos : start_item(item)
    /\ UNCHANGED <<mpiVars, lookup, pkcsVars>>

EndItem ==
    /\ end_item
    /\ UNCHANGED <<mpiVars, lookup, pkcsVars>>

NextTracker == StartItem \/ EndItem
SpecTracker == InitTracker /\ [][NextTracker]_vars

\* an item is open when self._current is one of the recorded items
ItemOpen == current # 0 /\ current # Root

\* C10: end_item never fails: with an item open it makes that item's
\* parent the current item, with none open (before any start_item, or
\* after every started item was ended) it leaves the hierarchy and the
\* current item as they are; and a start_item records its item as the last
\* child of the innermost open item, or as a top-level item when none is
\* open.
C10_EndItemNeverFails ==
    [][ /\ trackerErr' = "none"
        /\ EndItem =>
               IF ItemOpen
               THEN current' = heap[current].parent /\ heap' = heap
               ELSE UNCHANGED <<heap, current>>
        /\ StartItem =>
               LET parent == IF ItemOpen THEN current ELSE Root
               IN  /\ Len(heap') = Len(heap) + 1
                   /\ heap'[parent].items
                          = Append(heap[parent].items, Len(heap'))
                   /\ heap'[Len(heap')].parent = parent
                   /\ heap'[Len(heap')].items = <<>>
      ]_vars

\* the same without the demand that end_item never fails
C10_ExceptForTheFailure ==
    [][ /\ (EndItem /\ trackerErr' = "none") =>
               IF ItemOpen
               THEN current' = heap[current].parent /\ heap' = heap
               ELSE UNCHANGED <<heap, current>>
        /\ trackerErr' # "none" => (EndItem /\ current = Root)
        /\ StartItem =>
               LET parent == IF ItemOpen THEN current ELSE Root
               IN  /\ Len(heap') = Len(heap) + 1
                   /\ heap'[parent].items
                          = Append(heap[parent].items, Len(heap'))
                   /\ heap'[Len(heap')].parent = parent
                   /\ heap'[Len(heap')].items = <<>>
      ]_vars

====
